---- MODULE Spec2Model ----
(***************************************************************************)
(* A model of the gopass provider: the GopassClient wrapper (lazy,         *)
(* mutex-guarded store initialisation, Close, GetSecret, GetSecretFull,    *)
(* ListSecrets, GetEnvSecrets), the provider's Configure and the           *)
(* single-secret ephemeral resource (Configure, Open).                     *)
(*                                                                         *)
(* Strings are sequences of one-character strings, so that the string      *)
(* functions of the code (TrimSuffix, HasPrefix, TrimPrefix, Contains)     *)
(* are computed, not assumed.                                              *)
(***************************************************************************)
EXTENDS Integers, Sequences, FiniteSets, TLC

VARIABLES
    store,        \* GopassClient.store: 0 is nil, c >= 1 is the c-th store api.New returned
    mu,           \* GopassClient.mu: 0 is unlocked, p is held by goroutine p
    conns,        \* conns[c]: how many times Close(ctx) was called on store c
    newCalls,     \* number of api.New calls made
    newFails,     \* number of api.New calls that returned an error
    crashed,      \* an unrecovered panic ended the process
    misuse,       \* "none", or how a store call (Get, List) last went wrong:
                  \* "closed" (through a store already closed), "nil", "torn"
    thr,          \* thr[p]: goroutine p: its position and locals
    calls,        \* number of operations started (bounded by MaxCalls)
    provider,     \* provider.ConfigureResponse and what Configure built
    res,          \* res[p]: the SecretEphemeralResource instance goroutine p serves
    fn            \* calls made one at a time: store contents, prefix and results

vars == <<store, mu, conns, newCalls, newFails, crashed, misuse, thr, calls,
          provider, res, fn>>

clientVars == <<store, mu, conns, newCalls, newFails, crashed, misuse>>

-----------------------------------------------------------------------------
(* Bounds *)

NumProcs == 2
MaxCalls == 3
NumCallers == 4
MaxPathLen == 5
MaxPrefixLen == 3
MaxStore == 2

-----------------------------------------------------------------------------
(* Strings *)

Sep == <<"/">>

HasPrefix(s, prefix) ==
    /\ Len(s) >= Len(prefix)
    /\ SubSeq(s, 1, Len(prefix)) = prefix

HasSuffix(s, suffix) ==
    /\ Len(s) >= Len(suffix)
    /\ SubSeq(s, Len(s) - Len(suffix) + 1, Len(s)) = suffix

TrimSuffix(s, suffix) ==
    IF HasSuffix(s, suffix) THEN SubSeq(s, 1, Len(s) - Len(suffix)) ELSE s

TrimPrefix(s, prefix) ==
    IF HasPrefix(s, prefix) THEN SubSeq(s, Len(prefix) + 1, Len(s)) ELSE s

Contains(s, substr) ==
    \E i \in 1..(Len(s) - Len(substr) + 1) :
        SubSeq(s, i, i + Len(substr) - 1) = substr

-----------------------------------------------------------------------------
(* Results: the (value, error) pair a client function returns *)

NoErr == "none"

Ok(v) == [err |-> NoErr, val |-> v]

Err(e) == [err |-> e, val |-> <<>>]

Unset == [err |-> "unset", val |-> <<>>]

EmptyMap == <<>>

MapPut(m, k, v) == [x \in (DOMAIN m) \cup {k} |-> IF x = k THEN v ELSE m[x]]

Range(s) == {s[i] : i \in DOMAIN s}

-----------------------------------------------------------------------------
(* The secret store behind the gopass API, as far as the client sees it *)

\* secret.Password(): the first line of the entry stored at path
Password(path) == <<"pw:">> \o path

\* secret.Keys() and secret.Get(key): the named fields of the entry at path
Fields(path) == [k \in {<<"user">>} |-> <<"u:">> \o path]

-----------------------------------------------------------------------------
(* GopassClient: the sequential parts of ListSecrets and GetEnvSecrets *)

\* a prefix left as given
NormalizePrefixKeep(prefix) == prefix

\* prefix = strings.TrimSuffix(prefix, "/")
NormalizePrefix(prefix) == TrimSuffix(prefix, Sep)

\* no path taken for nested
IsNestedNever(relativePath) == FALSE

\* strings.Contains(relativePath, "/")
IsNested(relativePath) == Contains(relativePath, Sep)

RECURSIVE FilterLoop(_, _, _)
\* for _, secretPath := range allSecrets { ... results = append(results, secretPath) }
FilterLoop(allSecrets, prefixWithSlash, results) ==
    IF allSecrets = <<>> THEN results
    ELSE LET secretPath == Head(allSecrets)
             relativePath == TrimPrefix(secretPath, prefixWithSlash)
         IN  IF ~HasPrefix(secretPath, prefixWithSlash)
             THEN FilterLoop(Tail(allSecrets), prefixWithSlash, results)
             ELSE IF IsNested(relativePath)
             THEN FilterLoop(Tail(allSecrets), prefixWithSlash, results)
             ELSE FilterLoop(Tail(allSecrets), prefixWithSlash,
                             Append(results, secretPath))

\* ListSecrets after a successful store.List: normalise the prefix, filter
ListFilter(allSecrets, prefix) ==
    FilterLoop(allSecrets, NormalizePrefix(prefix) \o Sep, <<>>)

\* key := strings.TrimPrefix(fullPath, prefix+"/"), prefix normalised before
EnvKey(fullPath, prefix) == TrimPrefix(fullPath, NormalizePrefix(prefix) \o Sep)

\* a loop body that drops what it has when a GetSecret fails
EnvStepAbort(result, fullPath, prefix, got) ==
    IF got.err # NoErr THEN EmptyMap
    ELSE MapPut(result, EnvKey(fullPath, prefix), got.val)

\* one iteration of GetEnvSecrets' loop: a failed GetSecret is skipped
EnvStep(result, fullPath, prefix, got) ==
    IF got.err # NoErr THEN result
    ELSE MapPut(result, EnvKey(fullPath, prefix), got.val)

-----------------------------------------------------------------------------
(* The store contents the concurrent specifications run against *)

PathX == <<"a", "/", "x">>
PathY == <<"a", "/", "y">>
PathNested == <<"a", "/", "n", "/", "z">>
PathMissing == <<"a", "/", "m">>

\* what store.List returns
AllSecrets == <<PathX, PathNested, PathY>>

\* the paths and prefixes the callers ask for
ReqPaths == {PathX, PathMissing}
ReqPrefixes == {<<"a">>, <<"a", "/">>}

\* store.Get(ctx, path, "latest"): an absent entry is an error, a present one
\* is read or fails (decryption, backend)
GetOutcomes(path) ==
    IF path \in Range(AllSecrets) THEN {Ok(Password(path)), Err("get")}
    ELSE {Err("get")}

\* store.List(ctx), then the filter of ListSecrets
ListOutcomes(prefix) == {Ok(ListFilter(AllSecrets, prefix)), Err("list")}

-----------------------------------------------------------------------------
(* Goroutines *)

Threads == DOMAIN thr

IdleThread ==
    [pc |-> "idle", op |-> "none", callee |-> "none", arg |-> <<>>,
     todo |-> <<>>, acc |-> EmptyMap, ret |-> Unset, warn |-> NoErr]

\* a goroutine entering client function f (called from operation op)
Entered(op, f, arg) ==
    [IdleThread EXCEPT !.pc = IF f = "Close" THEN "close" ELSE "ensure",
                       !.op = op, !.callee = f, !.arg = arg]

\* the operation of goroutine t is over and r goes to its caller; of r the
\* goroutine keeps the error
Done(t, r) ==
    [IdleThread EXCEPT !.ret = [err |-> r.err, val |-> <<>>]]

\* the path the running GetSecret was called with
CurPath(t) == IF t.op = "GetEnvSecrets" THEN Head(t.todo) ELSE t.arg

\* client function t.callee returns r to its caller
AfterReturn(t, r) ==
    CASE t.op = "GetEnvSecrets" /\ t.callee = "ListSecrets" ->
            IF r.err # NoErr THEN Done(t, r)
            ELSE IF r.val = <<>> THEN Done(t, Ok(EmptyMap))
            ELSE [t EXCEPT !.callee = "GetSecret", !.todo = r.val,
                           !.acc = EmptyMap, !.pc = "ensure"]
      [] t.op = "GetEnvSecrets" /\ t.callee = "GetSecret" ->
            LET result == EnvStep(t.acc, Head(t.todo), t.arg, r)
            IN  IF Tail(t.todo) = <<>> THEN Done(t, Ok(result))
                ELSE [t EXCEPT !.todo = Tail(t.todo), !.acc = result,
                               !.pc = "ensure"]
      [] t.op = "Open" -> [t EXCEPT !.pc = "openret", !.ret = r]
      [] OTHER -> Done(t, r)

\* ensureStore returns e to the client function that called it
AfterEnsure(t, e) ==
    IF e # NoErr THEN AfterReturn(t, Err(e))
    ELSE IF t.callee = "ensureStore" THEN Done(t, Ok(<<>>))
    ELSE [t EXCEPT !.pc = "use"]

-----------------------------------------------------------------------------
(* GopassClient: the operations, one action per step between two points    *)
(* where another goroutine can observe or change the client                *)

Running == ~crashed

MayStart(p) == Running /\ thr[p].pc = "idle" /\ calls < MaxCalls

Start(p, t) ==
    /\ thr' = [thr EXCEPT ![p] = t]
    /\ calls' = calls + 1

\* a Lock that never blocks
LockNoWait(p) == TRUE

\* c.mu.Lock(): blocks while another goroutine holds the mutex
Lock(p) == mu = 0

CallGetSecret(p) ==
    /\ MayStart(p)
    /\ \E path \in ReqPaths : Start(p, Entered("GetSecret", "GetSecret", path))
    /\ UNCHANGED <<clientVars, provider, res, fn>>

CallGetSecretFull(p) ==
    /\ MayStart(p)
    /\ \E path \in ReqPaths :
          Start(p, Entered("GetSecretFull", "GetSecretFull", path))
    /\ UNCHANGED <<clientVars, provider, res, fn>>

CallListSecrets(p) ==
    /\ MayStart(p)
    /\ \E prefix \in ReqPrefixes :
          Start(p, Entered("ListSecrets", "ListSecrets", prefix))
    /\ UNCHANGED <<clientVars, provider, res, fn>>

\* GetEnvSecrets begins with c.ListSecrets(ctx, prefix)
CallGetEnvSecrets(p) ==
    /\ MayStart(p)
    /\ \E prefix \in ReqPrefixes :
          Start(p, Entered("GetEnvSecrets", "ListSecrets", prefix))
    /\ UNCHANGED <<clientVars, provider, res, fn>>

CallClose(p) ==
    /\ MayStart(p)
    /\ Start(p, Entered("Close", "Close", <<>>))
    /\ UNCHANGED <<clientVars, provider, res, fn>>

\* an ensureStore that does not test c.store
EnsureEnterAlways(p) ==
    /\ Running
    /\ thr[p].pc = "ensure"
    /\ Lock(p)
    /\ mu' = p
    /\ thr' = [thr EXCEPT ![p].pc = "new"]
    /\ UNCHANGED <<store, conns, newCalls, newFails, crashed, misuse,
                   calls, provider, res, fn>>

\* ensureStore: Lock, and return nil when the store is already there
EnsureEnter(p) ==
    /\ Running
    /\ thr[p].pc = "ensure"
    /\ Lock(p)
    /\ IF store # 0
       THEN /\ mu' = 0
            /\ thr' = [thr EXCEPT ![p] = AfterEnsure(thr[p], NoErr)]
       ELSE /\ mu' = p
            /\ thr' = [thr EXCEPT ![p].pc = "new"]
    /\ UNCHANGED <<store, conns, newCalls, newFails, crashed, misuse,
                   calls, provider, res, fn>>

\* ensureStore: api.New(ctx), then c.store = store or the error; Unlock
EnsureNew(p) ==
    /\ Running
    /\ thr[p].pc = "new"
    /\ newCalls' = newCalls + 1
    /\ mu' = 0
    /\ \E ok \in BOOLEAN :
          IF ok
          THEN /\ conns' = Append(conns, 0)
               /\ store' = Len(conns) + 1
               /\ newFails' = newFails
               /\ thr' = [thr EXCEPT ![p] = AfterEnsure(thr[p], NoErr)]
          ELSE /\ newFails' = newFails + 1
               /\ thr' = [thr EXCEPT ![p] = AfterEnsure(thr[p], "connect")]
               /\ UNCHANGED <<store, conns>>
    /\ UNCHANGED <<crashed, misuse, calls, provider, res, fn>>

\* what c.store.Get / c.store.List gives for the running client function
StoreOutcomes(t) ==
    IF t.callee = "ListSecrets" THEN ListOutcomes(t.arg)
    ELSE IF t.callee = "GetSecretFull"
    THEN {IF r.err = NoErr THEN Ok(<<r.val, Fields(CurPath(t))>>) ELSE r :
             r \in GetOutcomes(CurPath(t))}
    ELSE GetOutcomes(CurPath(t))

\* the store call after ensureStore returned nil: c.store is read without
\* the mutex; a nil c.store is a nil-interface method call, which panics
StoreCall(p) ==
    /\ Running
    /\ thr[p].pc = "use"
    /\ IF store = 0
       THEN /\ crashed' = TRUE
            /\ misuse' = "nil"
            /\ UNCHANGED thr
       ELSE /\ \E r \in StoreOutcomes(thr[p]) :
                  thr' = [thr EXCEPT ![p] = AfterReturn(thr[p], r)]
            /\ misuse' = IF conns[store] > 0 THEN "closed" ELSE misuse
            /\ UNCHANGED crashed
    /\ UNCHANGED <<store, mu, conns, newCalls, newFails, calls, provider,
                   res, fn>>

\* the unsynchronised read of c.store overlapping the write of it by the
\* goroutine that holds the mutex: a data race on a two-word interface value;
\* besides the old and the new value (the two orders of StoreCall and the
\* write) the read can give a torn one, whose method call panics
StoreCallTorn(p) ==
    /\ Running
    /\ thr[p].pc = "use"
    /\ \E q \in Threads \ {p} : mu = q /\ thr[q].pc \in {"new", "closing"}
    /\ crashed' = TRUE
    /\ misuse' = "torn"
    /\ UNCHANGED <<store, mu, conns, newCalls, newFails, thr, calls,
                   provider, res, fn>>

\* Close: Lock; return when c.store is nil; else closer.Close(ctx), whose
\* error is only logged (warn). Every store comes from api.New, whose
\* type has Close(context.Context) error, so the type assertion holds
CloseEnter(p) ==
    /\ Running
    /\ thr[p].pc = "close"
    /\ Lock(p)
    /\ IF store = 0
       THEN /\ mu' = 0
            /\ thr' = [thr EXCEPT ![p] = Done(thr[p], Ok(<<>>))]
            /\ UNCHANGED conns
       ELSE /\ mu' = p
            /\ conns' = [conns EXCEPT ![store] = @ + 1]
            /\ \E warn \in {NoErr, "close"} :
                  thr' = [thr EXCEPT ![p].pc = "closing", ![p].warn = warn]
    /\ UNCHANGED <<store, newCalls, newFails, crashed, misuse, calls,
                   provider, res, fn>>

\* a Close that returns on a close error without releasing the handle
CloseReleaseUnlessError(p) ==
    /\ Running
    /\ thr[p].pc = "closing"
    /\ store' = IF thr[p].warn = NoErr THEN 0 ELSE store
    /\ mu' = 0
    /\ thr' = [thr EXCEPT ![p] = [Done(thr[p], Ok(<<>>)) EXCEPT
                                     !.warn = thr[p].warn]]
    /\ UNCHANGED <<conns, newCalls, newFails, crashed, misuse, calls,
                   provider, res, fn>>

\* Close: c.store = nil; Unlock
CloseRelease(p) ==
    /\ Running
    /\ thr[p].pc = "closing"
    /\ store' = 0
    /\ mu' = 0
    /\ thr' = [thr EXCEPT ![p] = [Done(thr[p], Ok(<<>>)) EXCEPT
                                     !.warn = thr[p].warn]]
    /\ UNCHANGED <<conns, newCalls, newFails, crashed, misuse, calls,
                   provider, res, fn>>

-----------------------------------------------------------------------------
(* The client under concurrent use *)

IdleResource ==
    [state |-> "none", client |-> 0, afterProvider |-> FALSE,
     path |-> <<>>, diag |-> <<>>, result |-> Unset]

NoProvider == [state |-> "uninitialized", clients |-> 0, diag |-> FALSE,
               DataSourceData |-> 0, ResourceData |-> 0,
               EphemeralResourceData |-> 0]

NoFn == [op |-> "none"]

InitClient ==
    /\ store = 0
    /\ mu = 0
    /\ conns = <<>>
    /\ newCalls = 0
    /\ newFails = 0
    /\ crashed = FALSE
    /\ misuse = "none"

Procs == 1..NumProcs

Init ==
    /\ InitClient
    /\ thr = [p \in Procs |-> IdleThread]
    /\ calls = 0
    /\ provider = NoProvider
    /\ res = [p \in Procs |-> IdleResource]
    /\ fn = NoFn

Next ==
    \E p \in Procs :
        \/ CallGetSecret(p)
        \/ CallGetSecretFull(p)
        \/ CallListSecrets(p)
        \/ CallGetEnvSecrets(p)
        \/ CallClose(p)
        \/ EnsureEnter(p)
        \/ EnsureNew(p)
        \/ StoreCall(p)
        \/ StoreCallTorn(p)
        \/ CloseEnter(p)
        \/ CloseRelease(p)

Spec == Init /\ [][Next]_vars

-----------------------------------------------------------------------------
(* GopassProvider and SecretEphemeralResource *)

\* ProviderData: 0 is nil, k >= 1 is the pointer to the k-th *GopassClient,
\* OtherData is a value of another type
OtherData == 0 - 1

\* GopassProvider.Configure: read the configuration; NewGopassClient();
\* the client goes to DataSourceData and ResourceData
ProviderConfigure ==
    /\ Running
    /\ provider.state = "uninitialized"
    /\ \E hasError \in BOOLEAN :
          IF hasError
          THEN provider' = [provider EXCEPT !.state = "configured",
                                            !.diag = TRUE]
          ELSE LET client == provider.clients + 1
               IN  provider' = [provider EXCEPT !.state = "configured",
                                                !.clients = client,
                                                !.DataSourceData = client,
                                                !.ResourceData = client]
    /\ UNCHANGED <<clientVars, thr, calls, res, fn>>

\* NewSecretEphemeralResource: a new instance for a request
NewSecretEphemeralResource(p) ==
    /\ Running
    /\ res[p].state = "none"
    /\ res' = [res EXCEPT ![p].state = "new"]
    /\ UNCHANGED <<clientVars, thr, calls, provider, fn>>

TypeError == [summary |-> "Unexpected Provider Data", path |-> <<>>,
              cause |-> "type"]

\* SecretEphemeralResource.Configure with req.ProviderData = providerData
ResourceConfigure(p, providerData) ==
    /\ Running
    /\ res[p].state = "new"
    /\ res' = [res EXCEPT
          ![p] = [@ EXCEPT
             !.state = "configured",
             !.afterProvider = (provider.state = "configured"
                                /\ ~provider.diag),
             !.client = IF providerData >= 1 THEN providerData ELSE @,
             !.diag = IF providerData = OtherData
                      THEN Append(@, TypeError) ELSE @]]
    /\ UNCHANGED <<clientVars, thr, calls, provider, fn>>

\* the plugin framework configures an ephemeral resource with the
\* EphemeralResourceData of the provider's ConfigureResponse
FrameworkConfigure(p) ==
    ResourceConfigure(p, provider.EphemeralResourceData)

\* Configure called with any ProviderData
AnyConfigure(p) ==
    \E providerData \in {0, 1, OtherData} : ResourceConfigure(p, providerData)

ConfigError == [summary |-> "config", path |-> <<>>, cause |-> "config"]

\* Open: read the configuration, return on an error, else take the path
OpenBegin(p) ==
    /\ Running
    /\ res[p].state = "configured"
    /\ thr[p].pc = "idle"
    /\ \E hasError \in BOOLEAN :
          IF hasError
          THEN /\ res' = [res EXCEPT ![p].state = "opened",
                                     ![p].diag = Append(@, ConfigError)]
               /\ UNCHANGED thr
          ELSE /\ \E path \in ReqPaths :
                     /\ thr' = [thr EXCEPT ![p] =
                                   [IdleThread EXCEPT !.pc = "callget",
                                                      !.op = "Open",
                                                      !.arg = path]]
                     /\ res' = [res EXCEPT ![p].path = path]
    /\ UNCHANGED <<clientVars, calls, provider, fn>>

\* Open: r.client.GetSecret(ctx, path); with r.client nil, ensureStore's
\* c.mu.Lock() dereferences the nil receiver and panics
OpenCallGetSecret(p) ==
    /\ Running
    /\ thr[p].pc = "callget"
    /\ IF res[p].client = 0
       THEN /\ crashed' = TRUE
            /\ UNCHANGED thr
       ELSE /\ thr' = [thr EXCEPT ![p].pc = "ensure",
                                  ![p].callee = "GetSecret"]
            /\ UNCHANGED crashed
    /\ UNCHANGED <<store, mu, conns, newCalls, newFails, misuse, calls,
                   provider, res, fn>>

ReadError(path, err) ==
    [summary |-> "Failed to read secret", path |-> path, cause |-> err]

\* an Open that sets the result whatever GetSecret returned
OpenFinishAlwaysSet(p) ==
    /\ Running
    /\ thr[p].pc = "openret"
    /\ res' = [res EXCEPT ![p].state = "opened",
                          ![p].result = Ok(thr[p].ret.val)]
    /\ thr' = [thr EXCEPT ![p] = Done(thr[p], thr[p].ret)]
    /\ UNCHANGED <<clientVars, calls, provider, fn>>

\* Open after GetSecret returned: the error diagnostic, or the value set
OpenFinish(p) ==
    /\ Running
    /\ thr[p].pc = "openret"
    /\ IF thr[p].ret.err # NoErr
       THEN res' = [res EXCEPT
               ![p].state = "opened",
               ![p].diag = Append(@, ReadError(thr[p].arg, thr[p].ret.err))]
       ELSE res' = [res EXCEPT ![p].state = "opened",
                               ![p].result = Ok(thr[p].ret.val)]
    /\ thr' = [thr EXCEPT ![p] = Done(thr[p], thr[p].ret)]
    /\ UNCHANGED <<clientVars, calls, provider, fn>>

\* The provider as the plugin framework drives it
NextProvider ==
    \/ ProviderConfigure
    \/ \E p \in Procs :
          \/ NewSecretEphemeralResource(p)
          \/ FrameworkConfigure(p)
          \/ OpenBegin(p)
          \/ OpenCallGetSecret(p)

SpecProvider == Init /\ [][NextProvider]_vars

\* The resource configured with any provider data, and opened
NextResource ==
    \E p \in Procs :
        \/ NewSecretEphemeralResource(p)
        \/ AnyConfigure(p)
        \/ OpenBegin(p)
        \/ OpenCallGetSecret(p)
        \/ EnsureEnter(p)
        \/ EnsureNew(p)
        \/ StoreCall(p)
        \/ OpenFinish(p)

SpecResource == Init /\ [][NextResource]_vars

-----------------------------------------------------------------------------
(* N goroutines calling ensureStore at once on a new client *)

Callers == 1..NumCallers

InitEnsure ==
    /\ InitClient
    /\ \E S \in (SUBSET Callers) \ {{}} :
          /\ thr = [p \in Callers |->
                       IF p \in S
                       THEN Entered("ensureStore", "ensureStore", <<>>)
                       ELSE IdleThread]
          /\ calls = Cardinality(S)
    /\ provider = NoProvider
    /\ res = [p \in Callers |-> IdleResource]
    /\ fn = NoFn

NextEnsure ==
    \E p \in Callers :
        \/ EnsureEnter(p)
        \/ EnsureNew(p)

SpecEnsure == InitEnsure /\ [][NextEnsure]_vars

-----------------------------------------------------------------------------
(* ListSecrets and GetEnvSecrets called one at a time, by a single          *)
(* goroutine, over every store content and prefix within the bounds         *)

Chars == {"a", "/"}

Strings(maxLen) == UNION {[1..n -> Chars] : n \in 0..maxLen}

\* the name of a store entry: segments that are not empty, separated by "/"
IsEntryName(s) ==
    /\ Len(s) > 0
    /\ s[1] # "/"
    /\ s[Len(s)] # "/"
    /\ \A i \in 1..(Len(s) - 1) : ~(s[i] = "/" /\ s[i + 1] = "/")

EntryNames == {s \in Strings(MaxPathLen) : IsEntryName(s)}

RECURSIVE StoresUpTo(_)
\* the store contents: up to n entries
StoresUpTo(n) ==
    IF n = 0 THEN {{}}
    ELSE LET smaller == StoresUpTo(n - 1)
         IN  smaller \cup {S \cup {x} : S \in smaller, x \in EntryNames}

RECURSIVE SeqOf(_)
\* store.List(ctx): the stored paths, in the store's order
SeqOf(S) ==
    IF S = {} THEN <<>>
    ELSE LET x == CHOOSE y \in S : TRUE
         IN  <<x>> \o SeqOf(S \ {x})

\* ListSecrets; outcome says whether ensureStore and store.List succeed
ListSecrets(outcome, stored, prefix) ==
    IF outcome = "connect" THEN Err("connect")
    ELSE IF outcome = "list" THEN Err("list")
    ELSE Ok(ListFilter(SeqOf(stored), prefix))

\* GetSecret on the connected client; store.Get fails for the paths in broken
GetSecret(stored, broken, path) ==
    IF path \in stored /\ path \notin broken THEN Ok(Password(path))
    ELSE Err("get")

RECURSIVE EnvLoop(_, _, _, _, _)
\* for _, fullPath := range secretPaths { ... result[key] = value }
EnvLoop(secretPaths, prefix, result, stored, broken) ==
    IF secretPaths = <<>> THEN result
    ELSE LET fullPath == Head(secretPaths)
         IN  EnvLoop(Tail(secretPaths), prefix,
                     EnvStep(result, fullPath, prefix,
                             GetSecret(stored, broken, fullPath)),
                     stored, broken)

GetEnvSecrets(outcome, stored, broken, prefix) ==
    LET secretPaths == ListSecrets(outcome, stored, prefix)
    IN  IF secretPaths.err # NoErr THEN secretPaths
        ELSE Ok(EnvLoop(secretPaths.val, prefix, EmptyMap, stored, broken))

Outcomes == {"ok", "connect", "list"}

FnListSecrets ==
    /\ fn.op = "none"
    /\ \E outcome \in Outcomes :
          fn' = [fn EXCEPT !.op = "ListSecrets", !.outcome = outcome,
                    !.result = ListSecrets(outcome, fn.stored, fn.prefix)]
    /\ UNCHANGED <<clientVars, thr, calls, provider, res>>

FnGetEnvSecrets ==
    /\ fn.op = "none"
    /\ \E outcome \in Outcomes :
       \E broken \in SUBSET Range(ListFilter(SeqOf(fn.stored), fn.prefix)) :
          /\ outcome # "ok" => broken = {}
          /\ fn' = [fn EXCEPT !.op = "GetEnvSecrets", !.outcome = outcome,
                       !.broken = broken,
                       !.result = GetEnvSecrets(outcome, fn.stored, broken,
                                                fn.prefix)]
    /\ UNCHANGED <<clientVars, thr, calls, provider, res>>

\* the same call on the same store, the prefix with a separator appended
FnAgainWithSeparator ==
    /\ fn.op # "none"
    /\ fn.result2 = Unset
    /\ fn' = [fn EXCEPT !.result2 =
                 IF fn.op = "ListSecrets"
                 THEN ListSecrets(fn.outcome, fn.stored, fn.prefix \o Sep)
                 ELSE GetEnvSecrets(fn.outcome, fn.stored, fn.broken,
                                    fn.prefix \o Sep)]
    /\ UNCHANGED <<clientVars, thr, calls, provider, res>>

InitFn ==
    /\ InitClient
    /\ thr = [p \in Procs |-> IdleThread]
    /\ calls = 0
    /\ provider = NoProvider
    /\ res = [p \in Procs |-> IdleResource]
    /\ \E stored \in StoresUpTo(MaxStore), prefix \in Strings(MaxPrefixLen) :
          fn = [op |-> "none", stored |-> stored, prefix |-> prefix,
                outcome |-> "ok", broken |-> {}, result |-> Unset,
                result2 |-> Unset]

NextFn ==
    \/ FnListSecrets
    \/ FnGetEnvSecrets
    \/ FnAgainWithSeparator

SpecFn == InitFn /\ [][NextFn]_vars

-----------------------------------------------------------------------------
(* Properties of ListSecrets and GetEnvSecrets *)

NoSep(x) == \A i \in DOMAIN x : x[i] # "/"

\* the stored paths of the form q/x, x without a separator
ChildrenOf(q, stored) ==
    {s \in stored : \E x \in Strings(MaxPathLen) : NoSep(x) /\ s = q \o Sep \o x}

\* p without its last character when that is a separator
StripOne(p) ==
    IF Len(p) > 0 /\ p[Len(p)] = "/" THEN SubSeq(p, 1, Len(p) - 1) ELSE p

RECURSIVE StripAll(_)
\* p without its trailing separators
StripAll(p) ==
    IF Len(p) > 0 /\ p[Len(p)] = "/" THEN StripAll(SubSeq(p, 1, Len(p) - 1))
    ELSE p

\* the part of child c after prefix p (one trailing separator dropped) and
\* the separator
Relative(c, p) == SubSeq(c, Len(StripOne(p)) + 2, Len(c))

\* C5 (as the specification states it): for a prefix p with any number of trailing separators,
\* ListSecrets(p) returns exactly the stored paths q/x, q being p without its
\* trailing separators and x holding no separator.
C5_ChildrenAnyTrailingSeparators ==
    (fn.op = "ListSecrets" /\ fn.result.err = NoErr) =>
        Range(fn.result.val) = ChildrenOf(StripAll(fn.prefix), fn.stored)

\* C5 (amended): for a prefix p, ListSecrets(p) returns exactly the stored
\* paths q/x, q being p without one trailing separator (only one is
\* stripped) and x holding no separator, each once; it fails only when the
\* connect or the listing fails, and returns an empty result without error
\* when no path matches.
C5_ChildrenOneTrailingSeparator ==
    fn.op = "ListSecrets" =>
        /\ (fn.result.err = NoErr) = (fn.outcome = "ok")
        /\ fn.result.err = NoErr =>
              /\ Range(fn.result.val)
                   = ChildrenOf(StripOne(fn.prefix), fn.stored)
              /\ Len(fn.result.val) = Cardinality(Range(fn.result.val))

\* C5 witness: a prefix with a trailing separator, a store with a child and a
\* nested path under it, and the child alone returned
C5_Witness ==
    /\ fn.op = "ListSecrets"
    /\ HasSuffix(fn.prefix, Sep)
    /\ Len(fn.prefix) > 1
    /\ Cardinality(fn.stored) = 2
    /\ \A s \in fn.stored : HasPrefix(s, fn.prefix)
    /\ Len(fn.result.val) = 1
    /\ fn.result.err = NoErr

\* C6: for a prefix q that does not end in a separator, ListSecrets(q + "/")
\* and ListSecrets(q) return the same, and so do GetEnvSecrets(q + "/") and
\* GetEnvSecrets(q).
C6_TrailingSeparatorIgnored ==
    (fn.op # "none" /\ fn.result2 # Unset /\ ~HasSuffix(fn.prefix, Sep)) =>
        fn.result2 = fn.result

\* C6 witness: GetEnvSecrets(q) and GetEnvSecrets(q + "/") both returned a
\* map that is not empty
C6_Witness ==
    /\ fn.op = "GetEnvSecrets"
    /\ ~HasSuffix(fn.prefix, Sep)
    /\ fn.result2 # Unset
    /\ fn.result.err = NoErr
    /\ DOMAIN fn.result.val # {}
    /\ DOMAIN fn.result2.val # {}

\* C7: GetEnvSecrets(p) fails exactly when ListSecrets(p) fails, with its
\* error; else its map has one key per child ListSecrets(p) returns whose
\* GetSecret succeeds, the child's path relative to p, with the value
\* GetSecret returns for the child; a child whose GetSecret fails has no key.
C7_EnvMapOfChildren ==
    fn.op = "GetEnvSecrets" =>
        LET listed == ListSecrets(fn.outcome, fn.stored, fn.prefix)
            good == {c \in Range(listed.val) :
                        GetSecret(fn.stored, fn.broken, c).err = NoErr}
        IN  /\ fn.result.err = listed.err
            /\ fn.result.err = NoErr =>
                  /\ DOMAIN fn.result.val = {Relative(c, fn.prefix) : c \in good}
                  /\ Cardinality(DOMAIN fn.result.val) = Cardinality(good)
                  /\ \A c \in good :
                        fn.result.val[Relative(c, fn.prefix)]
                          = GetSecret(fn.stored, fn.broken, c).val

\* C7 witness: two children listed, GetSecret failed for one and the map
\* holds the other
C7_Witness ==
    /\ fn.op = "GetEnvSecrets"
    /\ fn.result.err = NoErr
    /\ Cardinality(fn.broken) = 1
    /\ Len(ListSecrets("ok", fn.stored, fn.prefix).val) = 2
    /\ Cardinality(DOMAIN fn.result.val) = 1

-----------------------------------------------------------------------------
(* Properties of the provider and the resource *)

\* C1 (as the specification states it): when Open of a resource configured after the provider's
\* Configure calls GetSecret, the resource's client is the one client wrapper
\* Configure built, never nil.
C1_OpenUsesTheSharedClient ==
    \A p \in Threads :
        (thr[p].pc = "callget" /\ res[p].afterProvider) =>
            /\ provider.clients = 1
            /\ res[p].client = provider.clients

\* C9: GetSecret on a path with no entry, or whose connect or store call
\* fails, returns an error and no value; Open then adds an error diagnostic
\* carrying the path and leaves the result unset; the result is set only
\* after a successful GetSecret, to the value it returned.
C9_OpenReportsFailure ==
    \A p \in Threads :
        /\ thr[p].pc = "openret" =>
              /\ thr[p].arg \notin Range(AllSecrets) => thr[p].ret.err # NoErr
              /\ thr[p].ret.err # NoErr => thr[p].ret.val = <<>>
              /\ res[p].result = Unset
        /\ (res[p].state = "opened" /\ thr[p].ret.err \in {"connect", "get"}) =>
              /\ res[p].result = Unset
              /\ res[p].diag # <<>>
              /\ res[p].diag[Len(res[p].diag)].summary = "Failed to read secret"
              /\ res[p].diag[Len(res[p].diag)].path = res[p].path
              /\ res[p].diag[Len(res[p].diag)].cause = thr[p].ret.err
        /\ res[p].result # Unset =>
              /\ res[p].state = "opened"
              /\ thr[p].ret.err = NoErr
              /\ res[p].path \in Range(AllSecrets)
              /\ res[p].result = Ok(Password(res[p].path))

\* C9 witness: an Open of a path with no entry has returned with the error
\* diagnostic, and another Open has set its value
C9_Witness ==
    /\ \E p \in Threads :
          /\ res[p].state = "opened"
          /\ res[p].path = PathMissing
          /\ thr[p].ret.err = "get"
          /\ res[p].diag # <<>>
    /\ \E p \in Threads :
          /\ res[p].state = "opened"
          /\ res[p].result # Unset

-----------------------------------------------------------------------------
(* Properties of the connection *)

AllReturned == \A p \in Threads : thr[p].pc = "idle"

\* the stores api.New returned that no Close call was made on
LiveConns == {c \in DOMAIN conns : conns[c] = 0}

\* the stores a Close call was made on
ClosedConns == {c \in DOMAIN conns : conns[c] > 0}

\* C2 (as the specification states it): once N concurrent ensureStore calls have returned, exactly
\* one api.New call was made.
C2_ExactlyOneOpen == AllReturned => newCalls = 1

\* C2 (amended): of the api.New calls of N concurrent ensureStore calls at
\* most one succeeds, and none is made after it; each failed call is followed
\* by the next invocation's own call. So N returned invocations made one call
\* more than failed when one succeeded (exactly one when none failed), and N
\* calls when all failed.
C2_OneSuccessfulOpen ==
    /\ newCalls - newFails <= 1
    /\ newCalls - newFails = Len(conns)
    /\ (store # 0) = (newCalls - newFails = 1)
    /\ AllReturned =>
          /\ newCalls = IF store # 0 THEN newFails + 1 ELSE calls
          /\ \A p \in Threads :
                thr[p].ret.err = NoErr => store # 0

\* C2 witness: at least three concurrent invocations have all returned after
\* a single api.New call
C2_Witness ==
    /\ AllReturned
    /\ calls >= 3
    /\ newCalls = 1
    /\ store # 0
    /\ \A p \in Threads : thr[p].ret.err \in {NoErr, "unset"}

\* C3: at most one store opened by the client is live (returned by api.New and
\* not yet passed to Close).
C3_AtMostOneLive == Cardinality(LiveConns) <= 1

\* C3 witness: a second store was opened after the first was closed, and a
\* goroutine is about to use it
C3_Witness ==
    /\ Len(conns) = 2
    /\ conns[1] = 1
    /\ store = 2
    /\ LiveConns = {2}
    /\ \E p \in Threads : thr[p].pc = "use"

\* C4 (as the specification states it): over the lifetime of the client the store is opened at
\* most once.
C4_OpenedAtMostOnce == newCalls <= 1

\* C4 (amended): api.New is called only while no store is held, so the calls
\* are at most one, plus one per failed api.New, plus one per store that
\* Close released; at most one of the stores it returned is held at a time.
C4_OpenedOncePerConnection ==
    /\ newCalls <= 1 + newFails + Cardinality(ClosedConns)
    /\ newCalls - newFails = Len(conns)
    /\ store # 0 => store = Len(conns)

\* C4 witness: an open failed, a later call opened, Close released the store
\* and a call after Close opened again
C4_Witness ==
    /\ newCalls = 3
    /\ newFails = 1
    /\ Cardinality(ClosedConns) = 1
    /\ store = 2

\* C8: Close never propagates an error and is idempotent. With no store held
\* it returns with the client unchanged and no close call; with a store held
\* it makes exactly one close call on it and returns with the handle nil, also
\* when the close call failed; no store is ever closed twice.
C8_CloseIdempotent ==
    /\ [](\A c \in DOMAIN conns : conns[c] <= 1)
    /\ [][\A p \in Threads :
            /\ (thr[p].pc = "close" /\ thr'[p].pc # "close" /\ store = 0) =>
                  /\ thr'[p].pc = "idle"
                  /\ thr'[p].ret.err = NoErr
                  /\ UNCHANGED <<store, conns, crashed>>
            /\ (thr[p].pc = "close" /\ thr'[p].pc # "close" /\ store # 0) =>
                  /\ thr'[p].pc = "closing"
                  /\ conns' = [conns EXCEPT ![store] = 1]
                  /\ UNCHANGED <<store, crashed>>
            /\ (thr[p].pc = "closing" /\ thr'[p].pc # "closing") =>
                  /\ thr'[p].pc = "idle"
                  /\ thr'[p].ret.err = NoErr
                  /\ store' = 0
                  /\ UNCHANGED <<conns, crashed>>]_vars

\* C8 witness: a Close whose close call failed has returned and the handle is
\* nil, a Close before it had closed an earlier store
C8_Witness ==
    /\ store = 0
    /\ Len(conns) = 2
    /\ \A c \in DOMAIN conns : conns[c] = 1
    /\ \E p \in Threads : thr[p].pc = "idle" /\ thr[p].warn = "close"

\* C10 (as the specification states it): no store call of a read operation goes through a handle
\* that a concurrent Close has set to nil.
C10_NoCallThroughNilHandle == misuse # "nil"

====
